---- MODULE Spec2Model ----
(***************************************************************************)
(* easyDataverse: the Dataset object (core/dataset.py), the metadata       *)
(* serialisation of DataverseBase (base.py) and the upload / update        *)
(* drivers (tools/uploader/uploader.py).                                   *)
(*                                                                         *)
(* Python values are tagged records, so that values of different Python    *)
(* types can be compared:                                                  *)
(*   None            [t |-> "none"]                                         *)
(*   a str           [t |-> "str",  s |-> "..."]                            *)
(*   a list          [t |-> "list", items |-> <<v1, ..., vn>>]              *)
(*   a pydantic obj  [t |-> "obj",  cls |-> "Author", attrs |-> [a |-> v]]  *)
(*   a dict          [t |-> "dict", items |-> <<[k |-> key, v |-> v], ..>>] *)
(* A dict keeps its insertion order, as Python's does.                     *)
(***************************************************************************)
EXTENDS Integers, Sequences, FiniteSets, TLC

VARIABLES
    metadatablocks, \* Dataset.metadatablocks: block name -> metadata block
    p_id,           \* Dataset.p_id: NoPid, or the persistent identifier
    files,          \* Dataset.files: the list of File entries
    nextPid,        \* remote repository: the identifier its next create hands out
    firstCreated,   \* remote repository: the identifier of the first dataset it created
    last            \* what the last call did: its outcome and the requests it issued

vars == <<metadatablocks, p_id, files, nextPid, firstCreated, last>>

\* ------------------------------------------------------------------ values

None == [t |-> "none"]
Str(s) == [t |-> "str", s |-> s]
List(items) == [t |-> "list", items |-> items]
Obj(cls, attrs) == [t |-> "obj", cls |-> cls, attrs |-> attrs]
Dict(items) == [t |-> "dict", items |-> items]
IntV(n) == [t |-> "int", n |-> n]
Bool(b) == [t |-> "bool", b |-> b]
KV(k, v) == [k |-> k, v |-> v]

EmptyDict == Dict(<<>>)
EmptyList == List(<<>>)

Range(s) == {s[i] : i \in DOMAIN s}

RECURSIVE Concat(_)
\* The concatenation of a sequence of sequences.
Concat(ss) == IF ss = <<>> THEN <<>> ELSE Head(ss) \o Concat(Tail(ss))

\* All sequences over S of length at most n.
SeqsUpTo(S, n) == UNION {[1..k -> S] : k \in 0..n}

\* ------------------------------------------------------------------ schema
\* The metadata classes are generated at run time from a Dataverse
\* installation's block definitions; the model fixes a citation block with
\* the fields REQUIRED_FIELDS names and a second block with a single
\* (non-repeated) compound.

Field(attr, typeName, typeClass, multiple) ==
    [attr |-> attr, alias |-> attr, typeName |-> typeName,
     typeClass |-> typeClass, multiple |-> multiple]

\* cls.model_fields, in declaration order.
model_fields ==
    [Citation |->
        << Field("title", "title", "primitive", FALSE),
           Field("author", "author", "compound", TRUE),
           Field("dataset_contact", "datasetContact", "compound", TRUE),
           Field("ds_description", "dsDescription", "compound", TRUE),
           Field("subject", "subject", "controlledVocabulary", TRUE) >>,
     Author |-> << Field("name", "authorName", "primitive", FALSE) >>,
     DatasetContact |->
        << Field("name", "datasetContactName", "primitive", FALSE),
           Field("email", "datasetContactEmail", "primitive", FALSE) >>,
     DsDescription |-> << Field("value", "dsDescriptionValue", "primitive", FALSE) >>,
     SocialScience |->
        << Field("target_sample_size", "targetSampleSize", "compound", FALSE) >>,
     TargetSampleSize |->
        << Field("actual", "targetSampleActualSize", "primitive", FALSE) >>]

\* The classes that carry _metadatablock_name, and the name they carry.
metadatablock_name == [Citation |-> "citation", SocialScience |-> "socialscience"]

HasMetadatablockName(obj) == obj.cls \in DOMAIN metadatablock_name

\* ------------------------------------------------- DataverseBase.dict

RECURSIVE model_dump(_, _)
\* pydantic's model_dump(by_alias=True, exclude_none=...): an object becomes
\* the dict of its fields' dumps, keyed by alias, in declaration order; with
\* exclude_none the None-valued fields are left out, at every depth.
model_dump(value, exclude_none) ==
    CASE value.t = "obj" ->
            LET fs == model_fields[value.cls]
                all == [i \in 1..Len(fs) |->
                           KV(fs[i].alias,
                              model_dump(value.attrs[fs[i].attr], exclude_none))]
            IN  Dict(IF exclude_none
                        THEN SelectSeq(all, LAMBDA kv : kv.v # None)
                        ELSE all)
      [] value.t = "list" ->
            List([i \in 1..Len(value.items) |->
                     model_dump(value.items[i], exclude_none)])
      [] OTHER -> value

\* A dict() that leaves the None-valued fields out whatever it is called with.
DataverseBase_dict_drops_none(self, exclude_none) ==
    LET fields == model_dump(self, TRUE)
    IN  Dict(SelectSeq(fields.items,
                       LAMBDA kv : kv.v # EmptyDict /\ kv.v # EmptyList))

\* DataverseBase.dict(**dictkwargs): the dump, less the top-level keys whose
\* value is {} or [].
DataverseBase_dict(self, exclude_none) ==
    LET fields == model_dump(self, exclude_none)
    IN  Dict(SelectSeq(fields.items,
                       LAMBDA kv : kv.v # EmptyDict /\ kv.v # EmptyList))

\* ------------------------------------------------------------ nob.Nob.paths
\* A path is the sequence of its segments: a dict key or a list index.

Key(k) == [key |-> k]
Idx(i) == [idx |-> i]
IsDigit(part) == "idx" \in DOMAIN part

RECURSIVE Nob_walk(_, _)
\* Every path below root, depth first and in order, each with the value
\* found there (Nob[path].val).
Nob_walk(root, root_path) ==
    CASE root.t = "dict" ->
            Concat([i \in 1..Len(root.items) |->
                LET p == Append(root_path, Key(root.items[i].k))
                IN  <<[path |-> p, val |-> root.items[i].v]>>
                        \o Nob_walk(root.items[i].v, p)])
      [] root.t = "list" ->
            Concat([i \in 1..Len(root.items) |->
                LET p == Append(root_path, Idx(i - 1))
                IN  <<[path |-> p, val |-> root.items[i] ]>>
                        \o Nob_walk(root.items[i], p)])
      [] OTHER -> <<>>

\* Nob(data).paths: the root path, then every path below it.
Nob_paths(data) == <<[path |-> <<>>, val |-> data]>> \o Nob_walk(data, <<>>)

\* ------------------------------------------------------------- validation
\* A required path is the sequence of its "/"-separated parts.

REQUIRED_FIELDS ==
    << <<"citation", "title">>,
       <<"citation", "author", "name">>,
       <<"citation", "dataset_contact", "name">>,
       <<"citation", "dataset_contact", "email">>,
       <<"citation", "ds_description", "value">>,
       <<"citation", "subject">> >>

\* "/".join(part for part in str(dspath).split("/") if not part.isdigit())
meta_path(dspath) == SelectSeq(dspath, LAMBDA part : ~IsDigit(part))

\* A variant that passes a path as soon as one value found at it is set.
validate_required_field_any_entry(blocks, path) ==
    LET metadatablock == Head(path)
        field_path == [i \in 1..(Len(path) - 1) |-> Key(path[i + 1])]
    IN  IF metadatablock \notin DOMAIN blocks
        THEN [raised |-> TRUE, block |-> metadatablock, ret |-> FALSE, printed |-> <<>>]
        ELSE
            LET nob == Nob_paths(DataverseBase_dict(blocks[metadatablock], FALSE))
                found == SelectSeq(nob, LAMBDA e : meta_path(e.path) = field_path)
                passes == \E k \in DOMAIN found : found[k].val # None
            IN  [raised |-> FALSE, block |-> "", ret |-> passes,
                 printed |-> IF passes THEN <<>>
                             ELSE <<[warning |-> "empty", path |-> path]>>]

\* A variant that records a missing metadatablock as an ordinary failure of
\* the path.
validate_required_field_records_missing(blocks, path) ==
    LET metadatablock == Head(path)
        field_path == [i \in 1..(Len(path) - 1) |-> Key(path[i + 1])]
        nob == IF metadatablock \in DOMAIN blocks
               THEN Nob_paths(DataverseBase_dict(blocks[metadatablock], FALSE))
               ELSE <<>>
        found == SelectSeq(nob, LAMBDA e : meta_path(e.path) = field_path)
        empty == SelectSeq(found, LAMBDA e : e.val = None)
    IN  [raised |-> FALSE, block |-> "",
         ret |-> Len(found) > 0 /\ Len(empty) = 0,
         printed |-> [i \in 1..Len(empty) |-> [warning |-> "empty", path |-> path]]
                        \o (IF Len(found) > 0 THEN <<>>
                            ELSE <<[warning |-> "not present", path |-> path]>>)]

\* Dataset._validate_required_field(path). raised: the ValueError for a
\* metadatablock that is not registered, naming the block; otherwise ret is
\* the returned bool and printed the warnings written to stdout, in order.
validate_required_field(blocks, path) ==
    LET metadatablock == Head(path)
        field_path == [i \in 1..(Len(path) - 1) |-> Key(path[i + 1])]
    IN  IF metadatablock \notin DOMAIN blocks
        THEN [raised |-> TRUE, block |-> metadatablock, ret |-> FALSE, printed |-> <<>>]
        ELSE
            LET nob == Nob_paths(DataverseBase_dict(blocks[metadatablock], FALSE))
                found == SelectSeq(nob, LAMBDA e : meta_path(e.path) = field_path)
                empty == SelectSeq(found, LAMBDA e : e.val = None)
                field_exists == Len(found) > 0
                results == [i \in 1..Len(empty) |-> FALSE]
                               \o (IF field_exists THEN <<>> ELSE <<FALSE>>)
                printed == [i \in 1..Len(empty) |-> [warning |-> "empty", path |-> path]]
                               \o (IF field_exists THEN <<>>
                                   ELSE <<[warning |-> "not present", path |-> path]>>)
            IN  [raised |-> FALSE, block |-> "", ret |-> Len(results) = 0,
                 printed |-> printed]

RECURSIVE validate_from(_, _, _, _, _)
\* The loop of Dataset._validate_required_fields from the i-th required
\* field on, and the assert after it.
\*   exc      "none", "ValueError" (raised by the field check, and not
\*            caught) or "AssertionError" (the assert after the loop)
\*   block    the block the ValueError's message names
\*   named    the required paths the error's message names
\*   checked  the required paths handed to the field check, in order
\*   results  the bools collected
\*   printed  the warnings written to stdout, in order
validate_from(blocks, i, checked, results, printed) ==
    IF i > Len(REQUIRED_FIELDS)
    THEN [exc |-> IF \A k \in DOMAIN results : results[k]
                     THEN "none" ELSE "AssertionError",
          block |-> "", named |-> {}, checked |-> checked,
          results |-> results, printed |-> printed]
    ELSE
        LET r == validate_required_field(blocks, REQUIRED_FIELDS[i])
        IN  IF r.raised
            THEN [exc |-> "ValueError", block |-> r.block, named |-> {},
                  checked |-> Append(checked, REQUIRED_FIELDS[i]),
                  results |-> results, printed |-> printed \o r.printed]
            ELSE validate_from(blocks, i + 1,
                               Append(checked, REQUIRED_FIELDS[i]),
                               Append(results, r.ret), printed \o r.printed)

RECURSIVE validate_fail_fast(_, _, _, _)
\* A variant of the loop that raises at the first required path that fails.
validate_fail_fast(blocks, i, checked, printed) ==
    IF i > Len(REQUIRED_FIELDS)
    THEN [exc |-> "none", block |-> "", named |-> {}, checked |-> checked,
          results |-> [k \in 1..Len(checked) |-> TRUE], printed |-> printed]
    ELSE
        LET r == validate_required_field(blocks, REQUIRED_FIELDS[i])
        IN  IF r.raised
            THEN [exc |-> "ValueError", block |-> r.block, named |-> {},
                  checked |-> Append(checked, REQUIRED_FIELDS[i]),
                  results |-> [k \in 1..Len(checked) |-> TRUE],
                  printed |-> printed \o r.printed]
            ELSE IF ~r.ret
            THEN [exc |-> "AssertionError", block |-> "", named |-> {},
                  checked |-> Append(checked, REQUIRED_FIELDS[i]),
                  results |-> Append([k \in 1..Len(checked) |-> TRUE], FALSE),
                  printed |-> printed \o r.printed]
            ELSE validate_fail_fast(blocks, i + 1, Append(checked, REQUIRED_FIELDS[i]),
                                    printed \o r.printed)

validate_required_fields_fail_fast(blocks) == validate_fail_fast(blocks, 1, <<>>, <<>>)

\* Dataset._validate_required_fields()
validate_required_fields(blocks) == validate_from(blocks, 1, <<>>, <<>>, <<>>)

\* ------------------------------------------- DataverseBase.dataverse_dict

\* dict.update({key: value}): an existing key keeps its place and takes the
\* new value; a new key is appended.
dict_update(d, key, value) ==
    IF \E i \in DOMAIN d.items : d.items[i].k = key
    THEN Dict([i \in DOMAIN d.items |->
                  IF d.items[i].k = key THEN KV(key, value) ELSE d.items[i]])
    ELSE Dict(Append(d.items, KV(key, value)))

\* list(d.values())
dict_values(d) == [i \in DOMAIN d.items |-> d.items[i].v]

dict_keys(d) == {d.items[i].k : i \in DOMAIN d.items}

\* DataverseBase.is_empty(value)
is_empty(value) ==
    \/ value = None
    \/ value = EmptyList
    \/ value.t = "obj" /\ DataverseBase_dict(value, TRUE) = EmptyDict

\* any(name in attr for name in ["add_", "_metadatablock_name"]): no
\* attribute of the schema above has such a name.
is_blind_fetch(attr) == attr \in {}

\* str(value) of a scalar.
str(value) == IF value.t = "int" THEN Str(ToString(value.n)) ELSE value

RECURSIVE dataverse_dict(_)
RECURSIVE dataverse_fields(_, _, _)

\* The loop of dataverse_dict over self.model_fields from the i-th field
\* on: json_obj gains one entry, keyed by typeName, for every field whose
\* value is not empty.
dataverse_fields(self, i, json_obj) ==
    LET fs == model_fields[self.cls] IN
    IF i > Len(fs) THEN json_obj
    ELSE
        LET properties == fs[i]
            value == self.attrs[fs[i].attr]
            compound ==
                IF properties.typeClass = "compound"
                THEN IF value.t = "list"
                     THEN List([j \in 1..Len(value.items) |->
                                   dataverse_dict(value.items[j])])
                     ELSE dataverse_dict(value)
                ELSE value
            converted ==
                IF compound.t \in {"list", "dict"} THEN compound ELSE str(compound)
        IN  IF is_blind_fetch(fs[i].attr) \/ is_empty(value)
            THEN dataverse_fields(self, i + 1, json_obj)
            ELSE dataverse_fields(self, i + 1,
                    dict_update(json_obj, properties.typeName,
                        Dict(<< KV("multiple", Bool(properties.multiple)),
                                KV("typeClass", Str(properties.typeClass)),
                                KV("typeName", Str(properties.typeName)),
                                KV("value", converted) >>)))

\* A variant that wraps whenever the object carries a block name, also when
\* no field was produced.
dataverse_dict_always_wraps(self) ==
    LET json_obj == dataverse_fields(self, 1, EmptyDict)
    IN  IF HasMetadatablockName(self)
        THEN Dict(<< KV(metadatablock_name[self.cls],
                        Dict(<< KV("fields", List(dict_values(json_obj))) >>)) >>)
        ELSE json_obj

\* DataverseBase.dataverse_dict(self)
dataverse_dict(self) ==
    LET json_obj == dataverse_fields(self, 1, EmptyDict)
    IN  IF HasMetadatablockName(self) /\ dict_values(json_obj) # <<>>
        THEN Dict(<< KV(metadatablock_name[self.cls],
                        Dict(<< KV("fields", List(dict_values(json_obj))) >>)) >>)
        ELSE json_obj

\* The order in which Dataset.metadatablocks is iterated.
BlockOrder == <<"citation", "socialscience">>

RECURSIVE merge_blocks(_, _, _)
\* The loop of Dataset.dataverse_dict: blocks.update(block.dataverse_dict())
\* for every registered block.
merge_blocks(mdb, i, blocks) ==
    IF i > Len(BlockOrder) THEN blocks
    ELSE IF BlockOrder[i] \notin DOMAIN mdb THEN merge_blocks(mdb, i + 1, blocks)
    ELSE
        LET d == dataverse_dict(mdb[BlockOrder[i]])
            RECURSIVE upd(_, _)
            upd(k, acc) ==
                IF k > Len(d.items) THEN acc
                ELSE upd(k + 1, dict_update(acc, d.items[k].k, d.items[k].v))
        IN  merge_blocks(mdb, i + 1, upd(1, blocks))

\* Dataset.dataverse_dict(self)
Dataset_dataverse_dict(mdb) ==
    Dict(<< KV("datasetVersion",
               Dict(<< KV("metadataBlocks", merge_blocks(mdb, 1, EmptyDict)) >>)) >>)

\* ----------------------------------------------------------------- strings
\* A path, a file name or an ignore pattern is a Python str, modelled as the
\* sequence of its characters: "d/f" is <<"d", "/", "f">>.

sep == <<"/">>

\* s.startswith(prefix)
startswith(s, prefix) == Len(s) >= Len(prefix) /\ SubSeq(s, 1, Len(prefix)) = prefix

\* s.endswith(suffix)
endswith(s, suffix) ==
    Len(s) >= Len(suffix) /\ SubSeq(s, Len(s) - Len(suffix) + 1, Len(s)) = suffix

\* sub in s
str_in(sub, s) == \E i \in 0..(Len(s) - Len(sub)) : SubSeq(s, i + 1, i + Len(sub)) = sub

RECURSIVE str_find(_, _, _)
\* s.find(old, i - 1) + 1: the position of the first occurrence of old in s
\* that starts at position i or later, 0 if there is none.
str_find(s, old, i) ==
    IF i + Len(old) - 1 > Len(s) THEN 0
    ELSE IF SubSeq(s, i, i + Len(old) - 1) = old THEN i
    ELSE str_find(s, old, i + 1)

RECURSIVE str_split(_, _)
\* s.split(old), old not empty: s is cut at the occurrences of old, taken
\* from the left and not overlapping.
str_split(s, old) ==
    LET i == str_find(s, old, 1)
    IN  IF i = 0 THEN <<s>>
        ELSE <<SubSeq(s, 1, i - 1)>> \o str_split(SubSeq(s, i + Len(old), Len(s)), old)

RECURSIVE str_join(_, _)
\* new.join(parts)
str_join(new, parts) ==
    IF parts = <<>> THEN <<>>
    ELSE IF Len(parts) = 1 THEN parts[1]
    ELSE parts[1] \o new \o str_join(new, Tail(parts))

\* s.replace(old, new): every occurrence of old, from the left and not
\* overlapping, is replaced; for a non-empty old this is new.join(s.split(old)).
str_replace(s, old, new) == str_join(new, str_split(s, old))

RECURSIVE rstrip(_, _)
\* s.rstrip(c) for a character c
rstrip(s, c) == IF s # <<>> /\ s[Len(s)] = c THEN rstrip(SubSeq(s, 1, Len(s) - 1), c) ELSE s

RECURSIVE rfind_from(_, _)
rfind_from(s, i) == IF i = 0 \/ s[i] = "/" THEN i ELSE rfind_from(s, i - 1)

\* s.rfind("/") + 1: the position of the last "/" of s, 0 if it has none.
rfind_sep(s) == rfind_from(s, Len(s))

\* os.path.join(a, b) (posixpath)
os_path_join(a, b) ==
    IF startswith(b, sep) THEN b
    ELSE IF a = <<>> \/ endswith(a, sep) THEN a \o b
    ELSE a \o sep \o b

RECURSIVE join_from(_, _)
join_from(path, parts) ==
    IF parts = <<>> THEN path ELSE join_from(os_path_join(path, Head(parts)), Tail(parts))

\* os.path.dirname(p) (posixpath)
os_path_dirname(p) ==
    LET head == SubSeq(p, 1, rfind_sep(p))
    IN  IF head # <<>> /\ \E i \in DOMAIN head : head[i] # "/" THEN rstrip(head, "/") ELSE head

\* os.path.basename(p) (posixpath)
basename(p) == SubSeq(p, rfind_sep(p) + 1, Len(p))

RECURSIVE normpath_comps(_, _, _)
\* The loop of posixpath.normpath over the components comps, from new_comps.
normpath_comps(comps, new_comps, initial_slashes) ==
    IF comps = <<>> THEN new_comps
    ELSE LET comp == Head(comps)
         IN  IF comp \in {<<>>, <<".">>}
             THEN normpath_comps(Tail(comps), new_comps, initial_slashes)
             ELSE IF \/ comp # <<".", ".">>
                     \/ (initial_slashes = 0 /\ new_comps = <<>>)
                     \/ (new_comps # <<>> /\ new_comps[Len(new_comps)] = <<".", ".">>)
             THEN normpath_comps(Tail(comps), Append(new_comps, comp), initial_slashes)
             ELSE IF new_comps # <<>>
             THEN normpath_comps(Tail(comps), SubSeq(new_comps, 1, Len(new_comps) - 1),
                                 initial_slashes)
             ELSE normpath_comps(Tail(comps), new_comps, initial_slashes)

\* os.path.normpath(path) (posixpath)
os_path_normpath(path) ==
    IF path = <<>> THEN <<".">>
    ELSE LET initial_slashes ==
                 IF ~startswith(path, sep) THEN 0
                 ELSE IF startswith(path, <<"/", "/">>) /\ ~startswith(path, <<"/", "/", "/">>)
                 THEN 2 ELSE 1
             joined == str_join(sep, normpath_comps(str_split(path, sep), <<>>, initial_slashes))
             result == [i \in 1..initial_slashes |-> "/"] \o joined
         IN  IF result = <<>> THEN <<".">> ELSE result

\* ------------------------------------------------------------------- files
\* The empty sequence stands for an unset (None) local_path, and is the
\* dv_dir "".

\* ------------------------------------------------------------- camel case

\* str.upper and str.lower on one character.
upper(c) ==
    CASE c = "a" -> "A" [] c = "b" -> "B" [] c = "c" -> "C" [] OTHER -> c

lower(c) ==
    CASE c = "A" -> "a" [] c = "B" -> "b" [] c = "C" -> "c" [] OTHER -> c

\* str.capitalize: the first character upper-cased, the others lower-cased.
capitalize(x) ==
    [i \in 1..Len(x) |-> IF i = 1 THEN upper(x[i]) ELSE lower(x[i])]

\* DataverseBase._snake_to_camel(word)
DataverseBase_snake_to_camel(word) ==
    LET xs == str_split(word, <<"_">>)
    IN  str_join(<<>>, [i \in 1..Len(xs) |->
                          IF capitalize(xs[i]) # <<>> THEN capitalize(xs[i]) ELSE <<"_">>])

\* Dataset._snake_to_camel(word)
Dataset_snake_to_camel(word) ==
    LET xs == str_split(word, <<"_">>)
    IN  str_join(<<>>, [i \in 1..Len(xs) |->
                          IF capitalize(xs[i]) # <<>> THEN capitalize(xs[i]) ELSE <<"_">>])

RECURSIVE DataverseBase_keys_to_camel_from(_, _, _)
RECURSIVE DataverseBase_keys_to_camel(_)
\* DataverseBase._keys_to_camel: the loop over dictionary.keys(), from the
\* i-th key on; only a value that is a dict is converted in its turn.
DataverseBase_keys_to_camel_from(dictionary, i, nu_dict) ==
    IF i > Len(dictionary.items) THEN nu_dict
    ELSE LET key == dictionary.items[i].k
             value == dictionary.items[i].v
         IN  DataverseBase_keys_to_camel_from(dictionary, i + 1,
                 dict_update(nu_dict, DataverseBase_snake_to_camel(key),
                             IF value.t = "dict"
                             THEN DataverseBase_keys_to_camel(value)
                             ELSE value))

DataverseBase_keys_to_camel(dictionary) ==
    DataverseBase_keys_to_camel_from(dictionary, 1, EmptyDict)

RECURSIVE Dataset_keys_to_camel_from(_, _, _)
RECURSIVE Dataset_keys_to_camel(_)
\* Dataset._keys_to_camel, the same loop.
Dataset_keys_to_camel_from(dictionary, i, nu_dict) ==
    IF i > Len(dictionary.items) THEN nu_dict
    ELSE LET key == dictionary.items[i].k
             value == dictionary.items[i].v
         IN  Dataset_keys_to_camel_from(dictionary, i + 1,
                 dict_update(nu_dict, Dataset_snake_to_camel(key),
                             IF value.t = "dict"
                             THEN Dataset_keys_to_camel(value)
                             ELSE value))

Dataset_keys_to_camel(dictionary) ==
    Dataset_keys_to_camel_from(dictionary, 1, EmptyDict)

NoPid == 0
NoFilePid == 0
NoPath == <<>>

\* File(filename=..., dv_dir=..., local_path=..., description=...): two File
\* objects are equal when all their fields are.
File(filename, dv_dir, local_path, description) ==
    [filename |-> filename, dv_dir |-> dv_dir, local_path |-> local_path,
     description |-> description, file_pid |-> NoFilePid]

\* ------------------------------------------------------------- transport
\* The remote repository answers every request with a status the model
\* chooses. A create without an identifier hands out a fresh one; a
\* create given an identifier answers with that identifier.

\* api.upload_datafile(p_id, file.local_path, df.json()) for the i-th file,
\* with the status the remote answered.
upload_datafile(fs, pid, status, i) ==
    [op |-> "upload_datafile", pid |-> pid, filename |-> fs[i].filename,
     local_path |-> fs[i].local_path, directoryLabel |-> fs[i].dv_dir,
     status |-> status[i]]

RECURSIVE upload_loop(_, _, _, _)
\* The loop of __uploadFiles from the i-th file on: the requests issued. It
\* ends with the first status that is not 200, where ValueError is raised.
upload_loop(fs, pid, status, i) ==
    IF i > Len(fs) THEN <<>>
    ELSE IF status[i] # 200
    THEN <<upload_datafile(fs, pid, status, i)>>
    ELSE <<upload_datafile(fs, pid, status, i)>> \o upload_loop(fs, pid, status, i + 1)

\* A variant that goes on after a failed upload and submits every file.
uploadFiles_best_effort(fs, pid, status) ==
    [i \in 1..Len(fs) |-> upload_datafile(fs, pid, status, i)]

\* __uploadFiles(files, p_id, api, content_loc): the requests issued, in order.
uploadFiles(fs, pid, status) == upload_loop(fs, pid, status, 1)

\* Whether __uploadFiles raised: its last request was answered with a
\* status other than 200.
uploadRaised(log) == log # <<>> /\ log[Len(log)].status # 200

\* upload_to_dataverse(json_data, dataverse_name, files, p_id, ...).
\*   valid_json  what pyDataverse's ds.validate_json() answers
\*   create_ok   whether the remote answers the create with status OK
\*   fresh       the identifier a create without p_id is answered with
\*   status      the status the remote answers the i-th file upload with
\* exc/ret: the exception raised or the identifier returned; log: the
\* requests issued, in order.
upload_to_dataverse(fs, pid, valid_json, create_ok, fresh, status) ==
    IF ~valid_json
    THEN [exc |-> "Exception", ret |-> NoPid, log |-> <<>>]
    ELSE
        LET answered == IF pid # NoPid THEN pid ELSE fresh
            create == [op |-> "create_dataset", pid |-> pid,
                       status |-> IF create_ok THEN "OK" ELSE "ERROR",
                       persistentId |-> IF create_ok THEN answered ELSE NoPid]
            uploads == IF fs # <<>> THEN uploadFiles(fs, answered, status) ELSE <<>>
        IN  IF ~create_ok
            THEN [exc |-> "Exception", ret |-> NoPid, log |-> <<create>>]
            ELSE IF uploadRaised(uploads)
            THEN [exc |-> "ValueError", ret |-> NoPid, log |-> <<create>> \o uploads]
            ELSE [exc |-> "none", ret |-> answered, log |-> <<create>> \o uploads]

RECURSIVE replaceFiles(_, _, _)
\* The loop of update_dataset over files from the i-th file on: a replace
\* request for every file whose local_path is set; the response is
\* assigned and not looked at.
replaceFiles(fs, status, i) ==
    IF i > Len(fs) THEN <<>>
    ELSE
        (IF fs[i].local_path # NoPath
         THEN <<[op |-> "replace_datafile", identifier |-> fs[i].file_pid,
                 filename |-> fs[i].local_path, status |-> status[i]]>>
         ELSE <<>>) \o replaceFiles(fs, status, i + 1)

\* new_files of update_dataset: the files without a file_pid, in order.
new_files(fs) == SelectSeq(fs, LAMBDA f : f.file_pid = NoFilePid)

\* update_dataset(p_id, json_data, files, ...).
\*   update_ok       whether the remote answers the PUT with status OK
\*   replace_status  the status the replace of the i-th file is answered with
\*   status          the status the i-th upload of new_files is answered with
update_dataset(pid, fs, update_ok, replace_status, status) ==
    LET put == [op |-> "put_metadata", pid |-> pid,
                status |-> IF update_ok THEN "OK" ELSE "ERROR"]
        replaces == replaceFiles(fs, replace_status, 1)
        uploads == uploadFiles(new_files(fs), pid, status)
    IN  IF ~update_ok
        THEN [exc |-> "Exception", ret |-> FALSE, log |-> <<put>>]
        ELSE IF uploadRaised(uploads)
        THEN [exc |-> "ValueError", ret |-> FALSE, log |-> <<put>> \o replaces \o uploads]
        ELSE [exc |-> "none", ret |-> TRUE, log |-> <<put>> \o replaces \o uploads]

\* --------------------------------------------------------- Dataset methods

\* self.metadatablocks.update({block_name: metadatablock})
blocks_update(blocks, name, block) ==
    [n \in DOMAIN blocks \cup {name} |-> IF n = name THEN block ELSE blocks[n]]

\* Dataset.add_metadatablock(metadatablock): TypeError for an object
\* without a metadatablock name, otherwise the block is registered under
\* its name.
add_metadatablock(blocks, metadatablock) ==
    IF ~HasMetadatablockName(metadatablock)
    THEN [exc |-> "TypeError", metadatablocks |-> blocks]
    ELSE [exc |-> "none",
          metadatablocks |->
              blocks_update(blocks, metadatablock_name[metadatablock.cls], metadatablock)]

\* A variant without the check for an equal entry.
add_file_unchecked(fs, local_path, dv_dir, description) ==
    [exc |-> "none",
     files |-> Append(fs, File(basename(local_path), dv_dir, local_path, description))]

\* Dataset.add_file(local_path, dv_dir, description)
add_file(fs, local_path, dv_dir, description) ==
    LET file == File(basename(local_path), dv_dir, local_path, description)
    IN  IF file \notin Range(fs)
        THEN [exc |-> "none", files |-> Append(fs, file)]
        ELSE [exc |-> "FileExistsError", files |-> fs]

\* ------------------------------------------------------------ directories
\* The directories of the file system, as os.walk visits them (a directory
\* before the directories below it): names are the names from the working
\* directory down, files the names of the files in the directory.

Dir(names, fnames) == [names |-> names, files |-> fnames]

FileSystem ==
    << Dir(<<>>, <<>>),
       Dir(<< <<"d">> >>, << <<"f">>, <<".", "g">> >>),
       Dir(<< <<"d">>, <<"s">> >>, << <<"f">> >>),
       Dir(<< <<"d">>, <<"s">>, <<"d">> >>, << <<"f">> >>),
       Dir(<< <<"d">>, <<".", "d">> >>, << <<"f">> >>),
       Dir(<< <<"d">>, <<".", "d">>, <<"s">> >>, << <<"f">> >>) >>

\* The names, from the working directory down, of the directory a relative
\* path denotes.
resolve(path) == normpath_comps(str_split(path, sep), <<>>, 0)

\* os.path.isdir(path)
os_path_isdir(path) == \E i \in DOMAIN FileSystem : FileSystem[i].names = resolve(path)

IsPrefix(a, b) == Len(a) <= Len(b) /\ SubSeq(b, 1, Len(a)) = a

\* os.walk(top): the directories at and below top, each with the path
\* os.walk reports for it (top joined with the names below top) and its files.
os_walk(top) ==
    LET root == resolve(top)
        below == SelectSeq(FileSystem, LAMBDA d : IsPrefix(root, d.names))
    IN  [i \in DOMAIN below |->
            [path |-> join_from(top, SubSeq(below[i].names, Len(root) + 1,
                                            Len(below[i].names))),
             files |-> below[i].files]]

\* Dataset._has_hidden_dir(path, dirpath)
has_hidden_dir(path, dirpath) ==
    IF path = dirpath THEN FALSE
    ELSE LET dirs == str_split(os_path_normpath(str_replace(path, dirpath \o sep, <<>>)), sep)
         IN  \E i \in DOMAIN dirs : startswith(dirs[i], <<".">>)

\* Dataset._has_ignore_dirs(path, dirpath, ignores)
has_ignore_dirs(path, dirpath, ignores) ==
    LET dirs == str_split(os_path_normpath(str_replace(path, dirpath \o sep, <<>>)), sep)
    IN  \E i \in DOMAIN ignores : \E j \in DOMAIN dirs :
            /\ Len(ignores[i]) > 0
            /\ str_in(str_replace(ignores[i], sep, <<>>), dirs[j])

\* The two guards at the head of the loop over os.walk: whether the files
\* of the directory at path are skipped.
skipped(path, dirpath, include_hidden, ignores) ==
    \/ has_hidden_dir(path, dirpath) /\ ~include_hidden
    \/ has_ignore_dirs(path, dirpath, ignores)

\* The paths of the files the loops of add_directory get to, in order.
retained_paths(dirpath, include_hidden, ignores) ==
    LET walk == os_walk(dirpath)
    IN  Concat([i \in DOMAIN walk |->
                   IF skipped(walk[i].path, dirpath, include_hidden, ignores) THEN <<>>
                   ELSE LET shown == SelectSeq(walk[i].files,
                                               LAMBDA f : ~startswith(f, <<".">>))
                        IN  [k \in DOMAIN shown |-> os_path_join(walk[i].path, shown[k])]])

\* path_parts of add_directory
path_parts(filepath, dirpath) ==
    LET root_parts == Range(str_split(dirpath, sep))
    IN  SelectSeq(str_split(filepath, sep), LAMBDA p : p \notin root_parts)

\* dv_pre of add_directory
dv_pre(filepath, dirpath, dv_dir) ==
    IF dirpath # <<".">>
    THEN LET parts == str_split(filepath, dirpath)
         IN  os_path_join(dv_dir, os_path_dirname(parts[Len(parts)]))
    ELSE dv_dir

\* A variant that appends the new entry whether or not the filename is
\* in the list.
substitute_appends(fs, data_file) == Append(fs, data_file)

\* "Substitute new files with old files": the first entry with the filename
\* of data_file takes its local_path; data_file is appended if there is none.
substitute(fs, data_file) ==
    LET named == SelectSeq([i \in DOMAIN fs |-> i],
                           LAMBDA i : fs[i].filename = data_file.filename)
    IN  IF named # <<>>
        THEN [fs EXCEPT ![Head(named)].local_path = data_file.local_path]
        ELSE Append(fs, data_file)

RECURSIVE add_directory_loop(_, _, _, _, _, _)
\* The body of the loops of add_directory from the i-th retained path on.
\* os.path.join(*path_parts) raises TypeError when path_parts is empty.
add_directory_loop(fs, paths, i, dirpath, dv_dir, retained) ==
    IF i > Len(paths) THEN [exc |-> "none", files |-> fs, retained |-> retained]
    ELSE LET parts == path_parts(paths[i], dirpath)
             filename == join_from(Head(parts), Tail(parts))
             data_file == File(filename, dv_pre(paths[i], dirpath, dv_dir), paths[i], "")
         IN  IF parts = <<>>
             THEN [exc |-> "TypeError", files |-> fs, retained |-> retained]
             ELSE add_directory_loop(substitute(fs, data_file), paths, i + 1, dirpath,
                                     dv_dir, Append(retained, data_file))

\* Dataset.add_directory(dirpath, dv_dir, include_hidden, ignores); retained
\* is the data_file built for each file the call gets to.
add_directory(fs, dirpath, dv_dir, include_hidden, ignores) ==
    IF ~os_path_isdir(dirpath)
    THEN [exc |-> "FileNotFoundError", files |-> fs, retained |-> <<>>]
    ELSE add_directory_loop(fs, retained_paths(dirpath, include_hidden, ignores), 1,
                            dirpath, dv_dir, <<>>)

\* Dataset.replace_file(filename, local_path)
replace_file(fs, filename, local_path) ==
    LET file == {i \in DOMAIN fs : fs[i].filename = filename}
    IN  IF Cardinality(file) = 0 THEN [exc |-> "ValueError", found |-> 0, files |-> fs]
        ELSE IF Cardinality(file) > 1 THEN [exc |-> "ValueError", found |-> Cardinality(file), files |-> fs]
        ELSE [exc |-> "none", found |-> 1,
              files |-> [fs EXCEPT ![CHOOSE i \in file : TRUE].local_path = local_path]]

\* A variant that calls upload_to_dataverse before it looks at the outcome of
\* the validation.
Dataset_upload_sends_first(validation, fs, pid, valid_json, create_ok, fresh, status) ==
    LET sent == upload_to_dataverse(fs, pid, valid_json, create_ok, fresh, status)
    IN  IF validation.exc # "none"
        THEN [exc |-> validation.exc, validation |-> validation, log |-> sent.log,
              p_id |-> pid]
        ELSE [exc |-> sent.exc, validation |-> validation, log |-> sent.log,
              p_id |-> IF sent.exc = "none" THEN sent.ret ELSE pid]

\* Dataset.upload(dataverse_name), given the outcome of its first statement,
\* self._validate_required_fields(): an exception of the validation ends the
\* call; otherwise upload_to_dataverse is called and what it returns becomes
\* p_id. An exception leaves p_id as it was.
Dataset_upload(validation, fs, pid, valid_json, create_ok, fresh, status) ==
    LET sent == upload_to_dataverse(fs, pid, valid_json, create_ok, fresh, status)
    IN  IF validation.exc # "none"
        THEN [exc |-> validation.exc, validation |-> validation, log |-> <<>>,
              p_id |-> pid]
        ELSE [exc |-> sent.exc, validation |-> validation, log |-> sent.log,
              p_id |-> IF sent.exc = "none" THEN sent.ret ELSE pid]

\* Dataset.update(), given the outcome of its first statement,
\* self._validate_required_fields(): then update_dataset is called.
Dataset_update(validation, fs, pid, update_ok, replace_status, status) ==
    LET sent == update_dataset(pid, fs, update_ok, replace_status, status)
    IN  IF validation.exc # "none"
        THEN [exc |-> validation.exc, validation |-> validation, log |-> <<>>,
              ret |-> FALSE]
        ELSE [exc |-> sent.exc, validation |-> validation, log |-> sent.log,
              ret |-> sent.ret]

\* ------------------------------------------------------------------ bounds

MaxEntries == 2   \* entries of the repeated compound author
MaxFiles == 2     \* entries of Dataset.files
MaxPid == 2       \* datasets the remote repository creates
MaxWord == 4      \* characters of a word given to _snake_to_camel

\* ------------------------------------------------------------------ inputs

Scalars == {None, Str("x")}

\* The lists over S of at most one entry.
AtMostOne(S) == {<<>>} \cup {<<x>> : x \in S}

Authors == {Obj("Author", [name |-> n]) : n \in Scalars}

Contacts == {Obj("DatasetContact", [name |-> n, email |-> e]) : n \in Scalars, e \in Scalars}

DsDescriptions == {Obj("DsDescription", [value |-> v]) : v \in Scalars}

\* The citation blocks: author is repeated up to MaxEntries times, the
\* other repeated fields hold at most one entry.
CitationBlocks ==
    {Obj("Citation", [title |-> t, author |-> List(a), dataset_contact |-> List(c),
                      ds_description |-> List(d), subject |-> List(s)]) :
        t \in Scalars, a \in SeqsUpTo(Authors, MaxEntries), c \in AtMostOne(Contacts),
        d \in AtMostOne(DsDescriptions), s \in AtMostOne({Str("Chemistry")})}

TargetSampleSizes == {Obj("TargetSampleSize", [actual |-> a]) : a \in {None, IntV(5)}}

SocialScienceBlocks ==
    {Obj("SocialScience", [target_sample_size |-> c]) : c \in {None} \cup TargetSampleSizes}

Absent == [t |-> "absent"]

\* Dataset.metadatablocks with the blocks c and s registered, Absent for none.
Registered(c, s) ==
    [n \in (IF c = Absent THEN {} ELSE {"citation"})
            \cup (IF s = Absent THEN {} ELSE {"socialscience"}) |->
        IF n = "citation" THEN c ELSE s]

BlockMaps ==
    {Registered(c, s) : c \in CitationBlocks \cup {Absent},
                        s \in SocialScienceBlocks \cup {Absent}}

\* A citation block with every required field filled in, and one with none.
FullCitation ==
    Obj("Citation",
        [title |-> Str("x"),
         author |-> List(<<Obj("Author", [name |-> Str("x")])>>),
         dataset_contact |->
             List(<<Obj("DatasetContact", [name |-> Str("x"), email |-> Str("x")])>>),
         ds_description |-> List(<<Obj("DsDescription", [value |-> Str("x")])>>),
         subject |-> List(<<Str("Chemistry")>>)])

EmptyCitation ==
    Obj("Citation", [title |-> None, author |-> EmptyList, dataset_contact |-> EmptyList,
                     ds_description |-> EmptyList, subject |-> EmptyList])

\* What add_metadatablock is called with: two citation blocks, a second
\* block, and a compound, which carries no metadatablock name.
AddedBlocks ==
    {FullCitation, EmptyCitation,
     Obj("SocialScience", [target_sample_size |-> None]),
     Obj("Author", [name |-> Str("x")])}

\* What add_file is called with: one call and three more, each differing
\* from it in one argument.
AddedFiles ==
    {[local_path |-> <<"d", "/", "f">>, dv_dir |-> <<"m">>, description |-> ""],
     [local_path |-> <<"o", "/", "f">>, dv_dir |-> <<"m">>, description |-> ""],
     [local_path |-> <<"d", "/", "f">>, dv_dir |-> <<>>, description |-> ""],
     [local_path |-> <<"d", "/", "f">>, dv_dir |-> <<"m">>, description |-> "raw"]}

Statuses == {200, 500}

\* ----------------------------------------------------------------- actions

\* Dataset(): no block, no identifier, no file.
Init ==
    /\ metadatablocks = [n \in {} |-> Absent]
    /\ p_id = NoPid
    /\ files = <<>>
    /\ nextPid = 1
    /\ firstCreated = NoPid
    /\ last = [op |-> "init"]

AddMetadatablock ==
    \E block \in AddedBlocks :
    \E r \in {add_metadatablock(metadatablocks, block)} :
        /\ metadatablocks' = r.metadatablocks
        /\ last' = [op |-> "add_metadatablock", exc |-> r.exc]
        /\ UNCHANGED <<p_id, files, nextPid, firstCreated>>

AddFile ==
    \E a \in AddedFiles :
    \E r \in {add_file(files, a.local_path, a.dv_dir, a.description)} :
        /\ Len(r.files) <= MaxFiles
        /\ files' = r.files
        /\ last' = [op |-> "add_file", exc |-> r.exc, args |-> a]
        /\ UNCHANGED <<metadatablocks, p_id, nextPid, firstCreated>>

\* Whether the remote repository created a dataset in answer to a request
\* of log.
Created(log) ==
    \E i \in DOMAIN log : log[i].op = "create_dataset" /\ log[i].status = "OK"

Upload ==
    \E validation \in {validate_required_fields(metadatablocks)} :
    \E valid_json \in BOOLEAN, create_ok \in BOOLEAN :
    \E status \in [1..Len(files) -> Statuses] :
    \E r \in {Dataset_upload(validation, files, p_id, valid_json, create_ok,
                              nextPid, status)} :
        /\ nextPid <= MaxPid
        /\ p_id' = r.p_id
        /\ nextPid' = IF Created(r.log) /\ p_id = NoPid THEN nextPid + 1 ELSE nextPid
        /\ firstCreated' =
               IF Created(r.log) /\ firstCreated = NoPid
               THEN r.log[1].persistentId ELSE firstCreated
        /\ last' = [op |-> "upload", exc |-> r.exc, validation |-> r.validation,
                    log |-> r.log]
        /\ UNCHANGED <<metadatablocks, files>>

\* The remote repository knows no dataset without an identifier: the PUT
\* for one is not answered OK.
Update ==
    \E validation \in {validate_required_fields(metadatablocks)} :
    \E update_ok \in BOOLEAN :
    \E replace_status \in [1..Len(files) -> Statuses] :
    \E status \in [1..Len(files) -> Statuses] :
    \E r \in {Dataset_update(validation, files, p_id, update_ok,
                              replace_status, status)} :
        /\ update_ok => p_id # NoPid
        /\ last' = [op |-> "update", exc |-> r.exc, validation |-> r.validation,
                    log |-> r.log, ret |-> r.ret]
        /\ UNCHANGED <<metadatablocks, p_id, files, nextPid, firstCreated>>

Next == AddMetadatablock \/ AddFile \/ Upload \/ Update

Spec == Init /\ [][Next]_vars

\* ------------------------------------------- the metadata functions alone
\* The validation and the serialisation are functions of the registered
\* blocks alone: SpecMeta starts from every registration of the blocks
\* above and applies them.

InitMeta ==
    /\ metadatablocks \in BlockMaps
    /\ p_id = NoPid
    /\ files = <<>>
    /\ nextPid = 1
    /\ firstCreated = NoPid
    /\ last = [op |-> "init"]

\* The compounds held by the fields of a block.
Compounds(block) ==
    UNION {LET value == block.attrs[f.attr]
           IN  IF value.t = "list" THEN Range(value.items)
               ELSE IF value.t = "obj" THEN {value} ELSE {} :
           f \in {g \in Range(model_fields[block.cls]) : g.typeClass = "compound"}}

\* The metadata objects of the dataset: its blocks and their compounds.
MetadataObjects ==
    UNION {{metadatablocks[n]} \cup Compounds(metadatablocks[n]) : n \in DOMAIN metadatablocks}

ValidateField ==
    \E path \in Range(REQUIRED_FIELDS) :
        /\ last' = [op |-> "validate_required_field", path |-> path,
                    res |-> validate_required_field(metadatablocks, path)]
        /\ UNCHANGED <<metadatablocks, p_id, files, nextPid, firstCreated>>

Validate ==
    /\ last' = [op |-> "validate_required_fields",
                res |-> validate_required_fields(metadatablocks)]
    /\ UNCHANGED <<metadatablocks, p_id, files, nextPid, firstCreated>>

DataverseDict ==
    \E self \in MetadataObjects :
        /\ last' = [op |-> "dataverse_dict", self |-> self, out |-> dataverse_dict(self)]
        /\ UNCHANGED <<metadatablocks, p_id, files, nextPid, firstCreated>>

DatasetDataverseDict ==
    /\ last' = [op |-> "Dataset.dataverse_dict",
                out |-> Dataset_dataverse_dict(metadatablocks)]
    /\ UNCHANGED <<metadatablocks, p_id, files, nextPid, firstCreated>>

\* self.dict() and self.dict(exclude_none=True).
BaseDict ==
    \E self \in MetadataObjects :
        \E exclude_none \in BOOLEAN :
            /\ last' = [op |-> "dict", self |-> self, exclude_none |-> exclude_none,
                        out |-> DataverseBase_dict(self, exclude_none)]
            /\ UNCHANGED <<metadatablocks, p_id, files, nextPid, firstCreated>>

NextMeta ==
    ValidateField \/ Validate \/ DataverseDict \/ DatasetDataverseDict \/ BaseDict

SpecMeta == InitMeta /\ [][NextMeta]_vars

\* --------------------------------------------- the key conversion alone

\* The characters of a word: a lower-case letter, an upper-case letter and
\* the separator.
Chars == {"a", "B", "_"}

Words == SeqsUpTo(Chars, MaxWord)

\* The keys of the dictionaries: a_b and c.
SnakeKeys == {<<"a", "_", "b">>, <<"c">>}

\* The dictionaries given to _keys_to_camel: one or two keys, each with a
\* string, a dictionary, a list of strings or a list of dictionaries.
InnerDicts == {Dict(<<KV(k, Str("v_w"))>>) : k \in SnakeKeys}

CamelValues ==
    {Str("v_w"), List(<<Str("v_w")>>)} \cup InnerDicts
        \cup {List(<<d>>) : d \in InnerDicts}
        \cup {Dict(<<KV(<<"c">>, d)>>) : d \in InnerDicts}

SnakeDicts ==
    {Dict(<<KV(k, v)>>) : k \in SnakeKeys, v \in CamelValues}
        \cup {Dict(<<KV(<<"a", "_", "b">>, v), KV(<<"c">>, w)>>) :
                  v \in CamelValues, w \in CamelValues}

\* Dataset._snake_to_camel(word) and DataverseBase._snake_to_camel(word).
SnakeToCamel ==
    \E word \in Words :
        /\ last' = [op |-> "_snake_to_camel", word |-> word,
                    out |-> DataverseBase_snake_to_camel(word),
                    dataset_out |-> Dataset_snake_to_camel(word)]
        /\ UNCHANGED <<metadatablocks, p_id, files, nextPid, firstCreated>>

\* Dataset()._keys_to_camel(dictionary) and the same call on a block.
KeysToCamel ==
    \E dictionary \in SnakeDicts :
        /\ last' = [op |-> "_keys_to_camel", dictionary |-> dictionary,
                    out |-> DataverseBase_keys_to_camel(dictionary),
                    dataset_out |-> Dataset_keys_to_camel(dictionary)]
        /\ UNCHANGED <<metadatablocks, p_id, files, nextPid, firstCreated>>

NextCamel == SnakeToCamel \/ KeysToCamel

SpecCamel == Init /\ [][NextCamel]_vars

\* ----------------------------------------------------- the file list alone
\* add_file, add_directory and replace_file work on Dataset.files alone:
\* SpecFiles applies them to a new Dataset.

DirArgs(dirpath, dv_dir, include_hidden, ignores) ==
    [dirpath |-> dirpath, dv_dir |-> dv_dir, include_hidden |-> include_hidden,
     ignores |-> ignores]

\* What add_directory is called with: the directory d, with a prefix, with
\* its hidden directories, with ignore patterns and named with a trailing
\* separator; the working directory; a hidden directory, named without and
\* with a trailing separator; a path that is no directory.
AddedDirectories ==
    {DirArgs(<<"d">>, <<>>, FALSE, <<>>),
     DirArgs(<<"d">>, <<"m">>, FALSE, <<>>),
     DirArgs(<<"d">>, <<>>, TRUE, <<>>),
     DirArgs(<<"d">>, <<>>, TRUE, << <<".", "d">> >>),
     DirArgs(<<"d">>, <<>>, FALSE, << <<"s">> >>),
     DirArgs(<<"d", "/">>, <<"m">>, FALSE, <<>>),
     DirArgs(<<".">>, <<"m">>, FALSE, <<>>),
     DirArgs(<<"d", "/", ".", "d">>, <<>>, FALSE, <<>>),
     DirArgs(<<"d", "/", ".", "d", "/">>, <<>>, FALSE, <<>>),
     DirArgs(<<"x">>, <<>>, FALSE, <<>>)}

\* What replace_file is called with.
ReplacedNames == {<<"f">>, <<"s", "/", "f">>, <<"x">>}

NewPath == <<"n", "/", "f">>

\* add_directory on a Dataset that holds MaxFiles entries at most.
AddDirectory ==
    /\ Len(files) <= MaxFiles
    /\ \E a \in AddedDirectories :
       \E r \in {add_directory(files, a.dirpath, a.dv_dir, a.include_hidden, a.ignores)} :
        /\ files' = r.files
        /\ last' = [op |-> "add_directory", exc |-> r.exc, retained |-> r.retained,
                    args |-> a]
        /\ UNCHANGED <<metadatablocks, p_id, nextPid, firstCreated>>

ReplaceFile ==
    \E filename \in ReplacedNames :
    \E r \in {replace_file(files, filename, NewPath)} :
        /\ files' = r.files
        /\ last' = [op |-> "replace_file", exc |-> r.exc, found |-> r.found,
                    args |-> [filename |-> filename, local_path |-> NewPath]]
        /\ UNCHANGED <<metadatablocks, p_id, nextPid, firstCreated>>

NextFiles == AddFile \/ AddDirectory \/ ReplaceFile

SpecFiles == Init /\ [][NextFiles]_vars

\* ================================================================== claims

IsTransfer == last.op \in {"upload", "update"}

UploadRequests(log) == SelectSeq(log, LAMBDA r : r.op = "upload_datafile")

\* Whether the remote answered request r with a non-success status.
Failed(r) ==
    IF r.op \in {"create_dataset", "put_metadata"} THEN r.status # "OK" ELSE r.status # 200

\* C1: in Dataset.upload and Dataset.update a failed validation (a required
\* field missing, or the metadatablock missing) raises before any request is
\* sent: the call issues no request and leaves p_id and the file list as
\* they were.
C1_ValidationBeforeTransport ==
    [][(last'.op \in {"upload", "update"} /\ last'.validation.exc # "none")
          => /\ last'.log = <<>>
             /\ last'.exc = last'.validation.exc
             /\ p_id' = p_id
             /\ files' = files
             /\ nextPid' = nextPid]_vars

\* An upload whose validation fails, on a dataset that holds files and was
\* uploaded before.
C1_Witness ==
    /\ last.op = "upload"
    /\ last.exc = "AssertionError"
    /\ files # <<>>
    /\ p_id # NoPid

\* C2: p_id changes at most once: it is absent until the first successful
\* create, holds the identifier of that create from then on, and no later
\* upload or update changes it.
C2_PidIsFirstCreated == p_id = firstCreated

\* C3: the files of a transfer are submitted one at a time in list order;
\* the first upload answered with a non-success status is the last request
\* of the call and raises, no later file is submitted, and nothing is sent
\* to undo the uploads before it.
C3_FilesInOrderFailFast ==
    (IsTransfer /\ last.log # <<>> /\ last.log[1].status = "OK") =>
        LET ups == UploadRequests(last.log)
            batch == IF last.op = "upload" THEN files ELSE new_files(files)
        IN  /\ Len(ups) <= Len(batch)
            /\ \A i \in DOMAIN ups :
                  /\ ups[i].filename = batch[i].filename
                  /\ ups[i].local_path = batch[i].local_path
                  /\ ups[i].directoryLabel = batch[i].dv_dir
            /\ \A i \in DOMAIN ups :
                  ups[i].status # 200 =>
                      /\ i = Len(ups)
                      /\ last.log[Len(last.log)] = ups[i]
                      /\ last.exc = "ValueError"
            /\ (\A i \in DOMAIN ups : ups[i].status = 200) =>
                  /\ Len(ups) = Len(batch)
                  /\ last.exc = "none"

\* An upload of two files or more whose first file fails: one upload
\* request only.
C3_Witness ==
    /\ last.op = "upload"
    /\ Len(files) >= 2
    /\ Len(UploadRequests(last.log)) = 1
    /\ last.exc = "ValueError"

\* C4: a non-success answer to a create, a metadata update, a file upload or
\* a file replace makes the call raise; update_dataset does not return True
\* after a replace that was answered with a non-success status.
C4_NonSuccessRaises ==
    (IsTransfer /\ \E i \in DOMAIN last.log : Failed(last.log[i])) => last.exc # "none"

\* C5: add_file called with the (local_path, dv_dir, description) of an
\* entry of the file list raises FileExistsError and leaves the list as it
\* was; called with a tuple that differs from every entry in some component
\* it appends exactly one entry, which holds the tuple.
C5_AddFileRejectsEqualTuple ==
    [][last'.op = "add_file" =>
          LET a == last'.args
              same == \E i \in DOMAIN files :
                          /\ files[i].local_path = a.local_path
                          /\ files[i].dv_dir = a.dv_dir
                          /\ files[i].description = a.description
          IN  IF same
              THEN last'.exc = "FileExistsError" /\ files' = files
              ELSE /\ last'.exc = "none"
                   /\ Len(files') = Len(files) + 1
                   /\ SubSeq(files', 1, Len(files)) = files
                   /\ files'[Len(files')].local_path = a.local_path
                   /\ files'[Len(files')].dv_dir = a.dv_dir
                   /\ files'[Len(files')].description = a.description
                   /\ files'[Len(files')].filename = basename(a.local_path)]_vars

\* The second of two add_file calls with one tuple has raised, and the list
\* holds the entry of the first.
C5_Witness ==
    /\ last.op = "add_file"
    /\ last.exc = "FileExistsError"
    /\ Len(files) = 1

\* The entries of the repeated compound a three-part required path goes
\* through, and the value an entry holds at the path.
Entries(path) == metadatablocks[path[1]].attrs[path[2]].items

EntryValue(entry, path) == entry.attrs[path[3]]

CompoundPathChecked ==
    /\ last.op = "validate_required_field"
    /\ Len(last.path) = 3
    /\ last.path[1] \in DOMAIN metadatablocks

\* C6 as claimed: a path through a repeated compound passes if and only if
\* at least one entry holds a value at it; an entry with no value does not
\* make it fail when another entry has one.
C6_PassesIffSomeEntrySet ==
    CompoundPathChecked =>
        (last.res.ret <=>
            \E i \in DOMAIN Entries(last.path) :
                EntryValue(Entries(last.path)[i], last.path) # None)

\* C6 as amended: a path through a repeated compound passes if and only if
\* the compound has an entry and every entry holds a value at the path; one
\* entry with no value makes the path fail.
C6_PassesIffEveryEntrySet ==
    CompoundPathChecked =>
        (last.res.ret <=>
            /\ Entries(last.path) # <<>>
            /\ \A i \in DOMAIN Entries(last.path) :
                  EntryValue(Entries(last.path)[i], last.path) # None)

\* citation/author/name checked on two authors, the first with a name and
\* the second without.
C6_Witness ==
    /\ CompoundPathChecked
    /\ last.path = <<"citation", "author", "name">>
    /\ Len(Entries(last.path)) = 2
    /\ Entries(last.path)[1].attrs.name # None
    /\ Entries(last.path)[2].attrs.name = None
    /\ ~last.res.ret

\* The required paths that fail on the registered blocks, each checked alone.
FailingPaths ==
    {path \in Range(REQUIRED_FIELDS) : ~validate_required_field(metadatablocks, path).ret}

ValidationRan == last.op = "validate_required_fields" /\ "citation" \in DOMAIN metadatablocks

\* C7 as claimed: the error of the dataset-level validation enumerates every
\* failing path.
C7_ErrorNamesFailingPaths ==
    (ValidationRan /\ last.res.exc = "AssertionError") => last.res.named = FailingPaths

\* C7 as amended: every required path is checked before the validation
\* fails, whichever paths fail; the error is raised once, after the last
\* path, exactly when some path failed; every failing path is reported by a
\* warning printed before the error, and the error's message names no path.
C7_AllPathsCheckedThenOneError ==
    ValidationRan =>
        /\ last.res.checked = REQUIRED_FIELDS
        /\ Len(last.res.results) = Len(REQUIRED_FIELDS)
        /\ last.res.exc = (IF FailingPaths = {} THEN "none" ELSE "AssertionError")
        /\ {last.res.printed[i].path : i \in DOMAIN last.res.printed} = FailingPaths
        /\ last.res.named = {}

\* The first required path fails and so does a later one.
C7_Witness ==
    /\ ValidationRan
    /\ last.res.exc = "AssertionError"
    /\ ~last.res.results[1]
    /\ ~last.res.results[Len(REQUIRED_FIELDS)]
    /\ Cardinality(FailingPaths) >= 3

\* C8: a required path whose metadatablock is not registered raises at once,
\* naming the block: nothing is printed or recorded for the path, and no
\* later required path is looked at.
C8_MissingBlockRaisesAtOnce ==
    /\ (last.op = "validate_required_field" /\ last.path[1] \notin DOMAIN metadatablocks)
          => /\ last.res.raised
             /\ last.res.block = last.path[1]
             /\ last.res.printed = <<>>
    /\ (last.op = "validate_required_fields" /\ "citation" \notin DOMAIN metadatablocks)
          => /\ last.res.exc = "ValueError"
             /\ last.res.block = "citation"
             /\ last.res.checked = <<REQUIRED_FIELDS[1]>>
             /\ last.res.results = <<>>
             /\ last.res.printed = <<>>

\* The validation of a dataset that holds a block, but not citation.
C8_Witness ==
    /\ last.op = "validate_required_fields"
    /\ DOMAIN metadatablocks = {"socialscience"}
    /\ last.res.exc = "ValueError"

\* d[key]
dict_get(d, key) == (CHOOSE kv \in Range(d.items) : kv.k = key).v

RECURSIVE Populated(_)
\* A value that is not None, not an empty list and not a compound without a
\* populated attribute.
Populated(value) ==
    /\ value # None
    /\ value # EmptyList
    /\ value.t = "obj" =>
          \E f \in Range(model_fields[value.cls]) : Populated(value.attrs[f.attr])

\* The field mappings of an output of dataverse_dict: the fields of the
\* wrapper, or the values of the bare mapping.
IsWrapped(self, out) ==
    /\ HasMetadatablockName(self)
    /\ Len(out.items) = 1
    /\ out.items[1].k = metadatablock_name[self.cls]
    /\ out.items[1].v.t = "dict"
    /\ Len(out.items[1].v.items) = 1
    /\ out.items[1].v.items[1].k = "fields"
    /\ out.items[1].v.items[1].v.t = "list"

OutputFields(self, out) ==
    IF IsWrapped(self, out) THEN out.items[1].v.items[1].v.items ELSE dict_values(out)

RECURSIVE NoEmptyValue(_)
\* No field mapping of fields, at any depth, has a value that is None, an
\* empty list, an empty mapping or a list that holds an empty mapping.
NoEmptyValue(fields) ==
    \A i \in DOMAIN fields :
        LET value == dict_get(fields[i], "value")
        IN  /\ value \notin {None, EmptyList, EmptyDict}
            /\ value.t = "dict" => NoEmptyValue(dict_values(value))
            /\ value.t = "list" =>
                  \A j \in DOMAIN value.items :
                      /\ value.items[j] \notin {None, EmptyDict}
                      /\ value.items[j].t = "dict" =>
                            NoEmptyValue(dict_values(value.items[j]))

\* C9: the output of dataverse_dict has no field for an attribute that is
\* None, an empty list or an empty compound, and no field, at any depth,
\* whose value is an empty mapping or a list that holds an empty mapping.
C9_NoEmptyValueInOutput ==
    last.op = "dataverse_dict" =>
        LET fields == OutputFields(last.self, last.out)
        IN  /\ \A f \in Range(model_fields[last.self.cls]) :
                  ~Populated(last.self.attrs[f.attr]) =>
                      \A i \in DOMAIN fields :
                          dict_get(fields[i], "typeName") # Str(f.typeName)
            /\ NoEmptyValue(fields)

\* The typeNames of the populated attributes of an object, in declaration
\* order.
ProducedNames(self) ==
    LET produced == SelectSeq(model_fields[self.cls],
                              LAMBDA f : Populated(self.attrs[f.attr]))
    IN  [i \in DOMAIN produced |-> Str(produced[i].typeName)]

\* C10: dataverse_dict returns {blockName: {fields: [...]}} exactly when the
\* object carries a block name and has a populated attribute, the fields in
\* declaration order, and the bare field mapping otherwise; the dataset's
\* output is {datasetVersion: {metadataBlocks: M}}, where M has a key for a
\* registered block exactly when that block has a populated attribute.
C10_WrapperIffNamedAndProduced ==
    /\ last.op = "dataverse_dict" =>
          LET fields == OutputFields(last.self, last.out)
          IN  /\ IsWrapped(last.self, last.out)
                    <=> (HasMetadatablockName(last.self) /\ ProducedNames(last.self) # <<>>)
              /\ [i \in DOMAIN fields |-> dict_get(fields[i], "typeName")]
                    = ProducedNames(last.self)
              /\ ~IsWrapped(last.self, last.out) =>
                    [i \in DOMAIN last.out.items |-> Str(last.out.items[i].k)]
                        = ProducedNames(last.self)
    /\ last.op = "Dataset.dataverse_dict" =>
          /\ Len(last.out.items) = 1
          /\ last.out.items[1].k = "datasetVersion"
          /\ Len(last.out.items[1].v.items) = 1
          /\ last.out.items[1].v.items[1].k = "metadataBlocks"
          /\ dict_keys(last.out.items[1].v.items[1].v)
                = {n \in DOMAIN metadatablocks : ProducedNames(metadatablocks[n]) # <<>>}

\* The output of a dataset with two registered blocks, of which one has a
\* populated attribute and the other has none.
C10_Witness ==
    /\ last.op = "Dataset.dataverse_dict"
    /\ DOMAIN metadatablocks = {"citation", "socialscience"}
    /\ dict_keys(last.out.items[1].v.items[1].v) = {"citation"}

\* The filenames of a list of File entries, in order.
filenames(fs) == [i \in DOMAIN fs |-> fs[i].filename]

Ingested == last.op = "add_directory" /\ last.exc = "none"

\* C11: add_directory appends one entry for each computed filename the list
\* does not hold and none for a filename it holds: the first entry with the
\* filename takes the newly computed local_path and keeps its other fields.
\* Run again with the same arguments it leaves the length and the filenames
\* of the list as they are.
C11_ReingestOverwritesInPlace ==
    [][(last'.op = "add_directory" /\ last'.exc = "none") =>
          LET retained == last'.retained
              names == Range(filenames(retained))
              held == Range(filenames(files))
              newest(n) == CHOOSE k \in DOMAIN retained :
                               /\ retained[k].filename = n
                               /\ \A j \in DOMAIN retained : retained[j].filename = n => j <= k
              first(i) == \A j \in 1..(i - 1) : files[j].filename # files[i].filename
              again == add_directory(files', last'.args.dirpath, last'.args.dv_dir,
                                     last'.args.include_hidden, last'.args.ignores)
          IN  /\ Len(files') = Len(files) + Cardinality(names \ held)
              /\ \A i \in DOMAIN files :
                    files'[i] =
                        IF files[i].filename \in names /\ first(i)
                        THEN [files[i] EXCEPT
                                 !.local_path = retained[newest(files[i].filename)].local_path]
                        ELSE files[i]
              /\ {files'[i].filename : i \in (Len(files) + 1)..Len(files')} = names \ held
              /\ again.exc = "none"
              /\ filenames(again.files) = filenames(files')]_vars

\* add_directory has given an entry that add_file appended a local_path below
\* the ingested directory.
C11_Witness ==
    /\ Ingested
    /\ \E i \in DOMAIN files :
          /\ files[i].description = "raw"
          /\ files[i].local_path = <<"d", "/", ".", "d", "/", "f">>

\* The names of the directory add_directory was called on, and, for a path
\* below it, the names of the directories from there down to the file and
\* the path relative to it.
RootNames == resolve(last.args.dirpath)

DirsBelowRoot(path) == SubSeq(resolve(path), Len(RootNames) + 1, Len(resolve(path)) - 1)

RelativePath(path) ==
    str_join(sep, SubSeq(resolve(path), Len(RootNames) + 1, Len(resolve(path))))

\* The files at and below the directory, as the names from the working
\* directory down to the file, whose directories below the directory all
\* satisfy Keep and whose own name does not begin with ".".
FilesBelowRoot(Keep(_)) ==
    {Append(FileSystem[i].names, FileSystem[i].files[k]) :
        <<i, k>> \in {ik \in (DOMAIN FileSystem) \X (1..2) :
                        /\ ik[2] \in DOMAIN FileSystem[ik[1]].files
                        /\ IsPrefix(RootNames, FileSystem[ik[1]].names)
                        /\ \A j \in (Len(RootNames) + 1)..Len(FileSystem[ik[1]].names) :
                              Keep(FileSystem[ik[1]].names[j])
                        /\ ~startswith(FileSystem[ik[1]].files[ik[2]], <<".">>)}}

RetainedFiles == {resolve(last.retained[k].local_path) : k \in DOMAIN last.retained}

Hidden(name) == startswith(name, <<".">>)

Ignored(name) ==
    \E i \in DOMAIN last.args.ignores :
        /\ last.args.ignores[i] # <<>>
        /\ str_in(str_replace(last.args.ignores[i], sep, <<>>), name)

NotHidden(name) == ~Hidden(name)

NotIgnored(name) == ~Ignored(name)

\* C12: with include_hidden=False (and nothing ignored) add_directory gets
\* to every file below the root that is not hidden and lies in no hidden
\* directory below the root, and to no other; the root is not treated as
\* hidden when its own name begins with ".".
C12_HiddenBelowRootOnly ==
    (Ingested /\ ~last.args.include_hidden /\ last.args.ignores = <<>>) =>
        RetainedFiles = FilesBelowRoot(NotHidden)

\* C13: add_directory gets to no file that lies in a directory, below the
\* root, whose name contains a string of ignores, whatever include_hidden
\* is; with include_hidden=True it gets to every other file below the root.
C13_IgnoredSkipped ==
    Ingested =>
        /\ \A k \in DOMAIN last.retained :
              \A j \in DOMAIN DirsBelowRoot(last.retained[k].local_path) :
                  ~Ignored(DirsBelowRoot(last.retained[k].local_path)[j])
        /\ last.args.include_hidden => RetainedFiles = FilesBelowRoot(NotIgnored)

\* C14: the dv_dir of every entry add_directory builds is the dv_dir it was
\* called with joined with the file's directory relative to the root, and
\* so begins with a dv_dir that is not empty.
C14_RemoteDirIsPrefixJoinedRelative ==
    Ingested =>
        \A k \in DOMAIN last.retained :
            LET relative == os_path_dirname(RelativePath(last.retained[k].local_path))
            IN  /\ last.retained[k].dv_dir
                      \in {os_path_join(last.args.dv_dir, relative)}
                              \cup (IF relative = <<>> THEN {last.args.dv_dir} ELSE {})
                /\ startswith(last.retained[k].dv_dir, last.args.dv_dir)

\* C15: the filename of every entry add_directory builds is the file's path
\* relative to the root, so two files of one call never get one filename.
C15_FilenameIsRelativePath ==
    Ingested =>
        /\ \A k \in DOMAIN last.retained :
              last.retained[k].filename = RelativePath(last.retained[k].local_path)
        /\ \A j, k \in DOMAIN last.retained :
              last.retained[j].filename = last.retained[k].filename => j = k

\* The values found at any depth of a dict() output.
ValuesBelow(out) == {e.val : e \in Range(Nob_walk(out, <<>>))}

\* The aliases of the fields of obj whose value satisfies Keep.
AliasesWhere(obj, Keep(_)) ==
    {f.alias : f \in {g \in Range(model_fields[obj.cls]) : Keep(obj.attrs[g.attr])}}

\* A compound all of whose fields are None: its dump without the None-valued
\* fields is {}.
AllNone(value) ==
    /\ value.t = "obj"
    /\ \A f \in Range(model_fields[value.cls]) : value.attrs[f.attr] = None

\* C16 (as stated): the output of dict holds no None and no empty list at
\* any depth, whatever keyword arguments were passed.
C16_NoNullNoEmptyListAtAnyDepth ==
    last.op = "dict" =>
        /\ None \notin ValuesBelow(last.out)
        /\ EmptyList \notin ValuesBelow(last.out)

\* C16 (amended): dict leaves out the top-level fields whose dump is [] or
\* {} and nothing else; the None-valued fields are left out, at every
\* depth, exactly when exclude_none is passed; a list keeps all its entries,
\* also the compounds of which nothing is left.
C16_TopLevelEmptiesAndNullsOnRequest ==
    last.op = "dict" =>
        LET self == last.self
            out == last.out
            Kept(value) ==
                /\ value # EmptyList
                /\ last.exclude_none => value # None /\ ~AllNone(value)
            Inner(value) == last.exclude_none => value # None
        IN  /\ dict_keys(out) = AliasesWhere(self, Kept)
            /\ last.exclude_none => None \notin ValuesBelow(out)
            /\ \A f \in Range(model_fields[self.cls]) :
                    LET value == self.attrs[f.attr]
                        dumped == dict_get(out, f.alias)
                    IN  Kept(value) =>
                          CASE value.t = "list" ->
                                 /\ dumped.t = "list"
                                 /\ Len(dumped.items) = Len(value.items)
                                 /\ \A i \in DOMAIN value.items :
                                        IF value.items[i].t = "obj"
                                        THEN dict_keys(dumped.items[i])
                                                 = AliasesWhere(value.items[i], Inner)
                                        ELSE dumped.items[i] = value.items[i]
                            [] value.t = "obj" ->
                                 dict_keys(dumped) = AliasesWhere(value, Inner)
                            [] OTHER -> dumped = value

\* dict(exclude_none=True) was called on a citation block without a title
\* whose only author has no name: the title is left out, the author is
\* kept as an empty mapping inside its list.
C16_Witness ==
    /\ last.op = "dict"
    /\ last.exclude_none
    /\ last.self.cls = "Citation"
    /\ last.self.attrs.title = None
    /\ last.self.attrs.author = List(<<Obj("Author", [name |-> None])>>)
    /\ dict_get(last.out, "author") = List(<<EmptyDict>>)

RECURSIVE EveryKeyConverted(_)
\* The value with every key converted, in dictionaries and in the elements
\* of lists alike, and everything else as it was.  No two keys of SnakeDicts
\* convert to one key.
EveryKeyConverted(value) ==
    CASE value.t = "dict" ->
            Dict([i \in DOMAIN value.items |->
                     KV(DataverseBase_snake_to_camel(value.items[i].k),
                        EveryKeyConverted(value.items[i].v))])
      [] value.t = "list" ->
            List([i \in DOMAIN value.items |-> EveryKeyConverted(value.items[i])])
      [] OTHER -> value

\* C17: _keys_to_camel returns the dictionary with every key at every depth
\* converted by _snake_to_camel, the keys of dictionaries inside lists
\* included, and every other value unchanged.
C17_EveryKeyAtEveryDepth ==
    last.op = "_keys_to_camel" =>
        /\ last.out = EveryKeyConverted(last.dictionary)
        /\ last.dataset_out = EveryKeyConverted(last.dictionary)

\* A segment with its first character upper-cased.
FirstUpper(x) == [i \in 1..Len(x) |-> IF i = 1 THEN upper(x[i]) ELSE x[i]]

\* C18: _snake_to_camel(word) is the concatenation of the segments of word
\* between the underscores, each with its first character upper-cased and
\* an empty one as an underscore, and the two versions agree.
C18_SegmentsFirstUpper ==
    last.op = "_snake_to_camel" =>
        LET xs == str_split(last.word, <<"_">>)
        IN  /\ last.out = Concat([i \in 1..Len(xs) |->
                                     IF xs[i] = <<>> THEN <<"_">> ELSE FirstUpper(xs[i])])
            /\ last.dataset_out = last.out

\* C19: update_dataset invokes replace only for a file that has a file_pid;
\* for a file without one no replace request is sent (it is uploaded as a
\* new file instead).
C19_ReplaceOnlyWithFilePid ==
    last.op = "update" =>
        \A i \in DOMAIN last.log :
            last.log[i].op = "replace_datafile" => last.log[i].identifier # NoFilePid

\* C20: whatever add_file, add_directory and replace_file calls were made,
\* no two entries of the file list have one filename, and replace_file never
\* finds more than one entry for a filename.
C20_FilenamesUnique ==
    /\ \A i, j \in DOMAIN files : files[i].filename = files[j].filename => i = j
    /\ last.op = "replace_file" => last.found <= 1

====
